---- MODULE Spec2Model ----
(***************************************************************************)
(* A model of terna/terna.py: the TernaPandasClient's token cache, its     *)
(* 1.1 s request spacing, the handling of data responses, the date         *)
(* parameters of fetch_data and the quarter-hour rule of _adjust_tz.       *)
(*                                                                         *)
(* Time is counted in tenths of a second.  One clock `now` stands for both *)
(* datetime.datetime.now() and time.monotonic(): the code only ever takes  *)
(* differences of readings of the same clock.                              *)
(***************************************************************************)
EXTENDS Integers, Sequences, FiniteSets, TLC

VARIABLES
    now,                    \* the clock, in tenths of a second
    horizon,                \* the clock stops here (bounds the model)
    threads,                \* the threads that call into the one client
    token,                  \* self.token
    token_expiration,       \* self.token_expiration
    time_of_last_request,   \* self.time_of_last_request
    pc,                     \* per thread: the statement it is at
    op,                     \* per thread: "token" (_request_token called directly) or "fetch"
    wake,                   \* per thread: when its time.sleep() ends
    read_tlr,               \* per thread: the time_of_last_request its gate read
    access_token,           \* per thread: _base_request's local access_token
    response,               \* per thread: the local `response`
    outcome,                \* per thread: what the call returned or raised
    callLog,                \* per thread: the HTTP calls dispatched by the current call
    tokenReply,             \* per thread: status of the token POST of the current call (0: none)
    sent,                   \* per thread: when its latest HTTP call was dispatched
    request,                \* arguments of an endpoint call (start, end, extra)
    data,                   \* the query parameters fetch_data built from them
    dt,                     \* a naive timestamp given to _adjust_tz
    adjusted                \* what _adjust_tz returned for it

vars == <<now, horizon, threads, token, token_expiration, time_of_last_request,
          pc, op, wake, read_tlr, access_token, response, outcome, callLog,
          tokenReply, sent, request, data, dt, adjusted>>

clientVars == <<token, token_expiration, time_of_last_request>>
threadVars == <<pc, op, wake, read_tlr, access_token, response, outcome, callLog,
                tokenReply, sent>>
pureVars   == <<request, data, dt, adjusted>>

----------------------------------------------------------------------------
(* Program constants *)

\* RATE_LIMIT = 1.1 (seconds), in tenths of a second
RATE_LIMIT == 11

\* datetime.timedelta(seconds=5) of the validity test, in tenths of a second
TOKEN_MARGIN == 50

\* time.monotonic() - 1 of the constructor, in tenths of a second
INITIAL_LAG == 10

\* the statuses logged as server-side failures
RetryableCodes == {429, 500, 502, 503, 504}

None == "None"

----------------------------------------------------------------------------
(* Bounds *)

\* the clock's last tick when one thread uses the client
MaxTime == 33

\* the clock's last tick when two threads use the client
MaxTimeConc == 2

\* a server answers, or the connection fails, within this many ticks
MaxLatency == 1

Threads == {1, 2}

\* what the token endpoint may hand out
AccessTokens == {"tokA", "tokB"}

\* expires_in of a token response, in tenths of a second: one that is within
\* the 5 s margin at once, and one that stays valid for a while
ExpiresIn == {40, 80}

\* statuses a server may answer with: 200, a 2xx that is not 200, a client
\* error, a retryable-class error
Statuses == {200, 204, 401, 503}

\* JSON bodies of a data response, as the sequence of their top-level keys
DataBodies == { <<>>, <<"result">>, <<"result", "load">>, <<"load">> }

\* JSON bodies of a token response
TokenBodies ==
    { [access_token |-> a, expires_in |-> e] : a \in AccessTokens, e \in ExpiresIn }
    \cup { [error |-> "invalid_client"] }

\* what the token endpoint may answer: any body with a status that raises
\* nothing, the error body with one that does
TokenResponses ==
    { [status |-> s, body |-> b] : s \in {200, 204}, b \in TokenBodies }
    \cup { [status |-> s, body |-> [error |-> "invalid_client"]] : s \in Statuses \ {200, 204} }

\* what a data endpoint may answer
DataResponses ==
    { [status |-> 200, body |-> b] : b \in DataBodies }
    \cup { [status |-> s, body |-> <<>>] : s \in Statuses \ {200} }

----------------------------------------------------------------------------
(* Values *)

NoResponse == [status |-> 0]

Pending == [kind |-> "pending", val |-> None]

\* no HTTP call was dispatched yet
NoTime == 0 - 1

\* dict.get(key): the value, or None for a key the body lacks
Get(body, key) == IF key \in DOMAIN body THEN body[key] ELSE None

----------------------------------------------------------------------------
(* __init__ *)

ClientInit ==
    /\ token = None
    /\ token_expiration = now
    /\ time_of_last_request = now - INITIAL_LAG

ThreadInit ==
    /\ pc = [t \in Threads |-> "idle"]
    /\ op = [t \in Threads |-> "none"]
    /\ wake = [t \in Threads |-> 0]
    /\ read_tlr = [t \in Threads |-> 0]
    /\ access_token = [t \in Threads |-> None]
    /\ response = [t \in Threads |-> NoResponse]
    /\ outcome = [t \in Threads |-> Pending]
    /\ callLog = [t \in Threads |-> <<>>]
    /\ tokenReply = [t \in Threads |-> 0]
    /\ sent = [t \in Threads |-> NoTime]

----------------------------------------------------------------------------
(* Helpers of the two request methods *)

\* the comparison of line 82 turned round
TokenStillValid_Reversed ==
    token_expiration - TOKEN_MARGIN < now /\ token # None

\* line 82: the cached token is kept while it is set and more than 5 s from expiry
TokenStillValid ==
    token_expiration - TOKEN_MARGIN > now /\ token # None

\* a gate that waits for one second, not for RATE_LIMIT
SleepFor_OneSecond(elapsed) == RATE_LIMIT - 1 - elapsed

\* lines 99-101 and 147-149: how long the gate sleeps, `elapsed` after the last request
SleepFor(elapsed) == RATE_LIMIT - elapsed

\* requests' raise_for_status(): 4xx and 5xx raise HTTPError
RaisesHTTPError(status) == status >= 400

\* a token stored from every response that raises nothing
StoresToken_AnySuccess(status) == status < 400

\* line 114: the token response whose token is stored
StoresToken(status) == status = 200

\* an expiration that takes the 5 s margin off when it is stored
NewExpiration_LessMargin(clock, expires_in) == clock + expires_in - TOKEN_MARGIN

\* line 117: datetime.now() + timedelta(seconds=expires_in)
NewExpiration(clock, expires_in) == clock + expires_in

\* an except block that goes back to the gate on a retryable-class status
AfterHTTPError_Retry(code, verb) ==
    IF code \in RetryableCodes
    THEN (IF verb = "POST" THEN "t_gate" ELSE "b_gate")
    ELSE "idle"

\* lines 107-111 and 158-162: the except block logs a retryable-class status
\* and re-raises: the call is over, whatever the status and the verb
AfterHTTPError(code, verb) == "idle"

\* the frame a call leaves with: its locals are gone
DropLocals(t) ==
    /\ wake' = [wake EXCEPT ![t] = 0]
    /\ read_tlr' = [read_tlr EXCEPT ![t] = 0]
    /\ access_token' = [access_token EXCEPT ![t] = None]
    /\ response' = [response EXCEPT ![t] = NoResponse]

\* the call returns `result` to its caller, or raises it
Leave(t, result) ==
    /\ pc' = [pc EXCEPT ![t] = "idle"]
    /\ outcome' = [outcome EXCEPT ![t] = result]
    /\ DropLocals(t)

\* an exception that no except block of the class catches
Raise(t, exc, verb) == Leave(t, [kind |-> exc, val |-> verb])

\* the HTTPError of raise_for_status() passes through the except block
RaiseHTTPError(t, code, verb) ==
    /\ pc' = [pc EXCEPT ![t] = AfterHTTPError(code, verb)]
    /\ outcome' = [outcome EXCEPT ![t] = [kind |-> "HTTPError", val |-> verb, code |-> code]]
    /\ IF AfterHTTPError(code, verb) = "idle"
       THEN DropLocals(t)
       ELSE UNCHANGED <<wake, read_tlr, access_token, response>>

\* _request_token returns v: to whoever called it directly, or into line 135
ReturnToken(t, v) ==
    IF op[t] = "token"
    THEN Leave(t, [kind |-> "token", val |-> v])
    ELSE /\ pc' = [pc EXCEPT ![t] = "b_gate"]
         /\ access_token' = [access_token EXCEPT ![t] = v]
         /\ wake' = [wake EXCEPT ![t] = 0]
         /\ read_tlr' = [read_tlr EXCEPT ![t] = 0]
         /\ response' = [response EXCEPT ![t] = NoResponse]
         /\ UNCHANGED outcome

\* a call begins
Begin(t, kind) ==
    /\ pc[t] = "idle"
    /\ pc' = [pc EXCEPT ![t] = "t_check"]
    /\ op' = [op EXCEPT ![t] = kind]
    /\ outcome' = [outcome EXCEPT ![t] = Pending]
    /\ callLog' = [callLog EXCEPT ![t] = <<>>]
    /\ tokenReply' = [tokenReply EXCEPT ![t] = 0]
    /\ UNCHANGED <<now, horizon, threads, clientVars, wake, read_tlr, access_token,
                   response, sent, pureVars>>

\* lines 98-101 and 146-149: read the last request's time, sleep if it is too recent
Gate(t, at, sleepPc, sendPc) ==
    /\ pc[t] = at
    /\ LET time_elapsed == now - time_of_last_request IN
       /\ read_tlr' = [read_tlr EXCEPT ![t] = time_of_last_request]
       /\ IF time_elapsed < RATE_LIMIT
          THEN /\ wake' = [wake EXCEPT ![t] = now + SleepFor(time_elapsed)]
               /\ pc' = [pc EXCEPT ![t] = sleepPc]
          ELSE /\ pc' = [pc EXCEPT ![t] = sendPc]
               /\ UNCHANGED wake
    /\ UNCHANGED <<now, horizon, threads, clientVars, op, access_token, response, outcome,
                   callLog, tokenReply, sent, pureVars>>

\* time.sleep() returns once the time asked for has passed
Wake(t, at, sendPc) ==
    /\ pc[t] = at
    /\ now >= wake[t]
    /\ pc' = [pc EXCEPT ![t] = sendPc]
    /\ UNCHANGED <<now, horizon, threads, clientVars, op, wake, read_tlr, access_token,
                   response, outcome, callLog, tokenReply, sent, pureVars>>

\* session.post() / session.get() puts the request on the wire
Send(t, at, verb, waitPc) ==
    /\ pc[t] = at
    /\ pc' = [pc EXCEPT ![t] = waitPc]
    /\ callLog' = [callLog EXCEPT ![t] = Append(@, verb)]
    /\ sent' = [sent EXCEPT ![t] = now]
    /\ UNCHANGED <<now, horizon, threads, clientVars, op, wake, read_tlr, access_token,
                   response, outcome, tokenReply, pureVars>>

\* session.post() / session.get() returns the server's response
Recv(t, at, stampPc, r) ==
    /\ pc[t] = at
    /\ response' = [response EXCEPT ![t] = r]
    /\ pc' = [pc EXCEPT ![t] = stampPc]
    /\ UNCHANGED <<now, horizon, threads, clientVars, op, wake, read_tlr, access_token,
                   outcome, callLog, sent, pureVars>>

\* session.post() / session.get() raises (connection failure, timeout): not an
\* HTTPError, so no except block catches it, and the statement that records
\* the time of the request (line 103, line 152) is never reached
Fail(t, at, verb) ==
    /\ pc[t] = at
    /\ Raise(t, "ConnectionError", verb)
    /\ UNCHANGED <<now, horizon, threads, clientVars, op, callLog, tokenReply, sent, pureVars>>

\* lines 103 and 152: self.time_of_last_request = time.monotonic()
Stamp(t, at, handlePc) ==
    /\ pc[t] = at
    /\ time_of_last_request' = now
    /\ pc' = [pc EXCEPT ![t] = handlePc]
    /\ UNCHANGED <<now, horizon, threads, token, token_expiration, op, wake, read_tlr,
                   access_token, response, outcome, callLog, tokenReply, sent, pureVars>>

----------------------------------------------------------------------------
(* _request_token *)

\* _request_token() called on its own
CallRequestToken(t) == Begin(t, "token")

\* lines 82-84
T_Check(t) ==
    /\ pc[t] = "t_check"
    /\ IF TokenStillValid
       THEN ReturnToken(t, token)
       ELSE /\ pc' = [pc EXCEPT ![t] = "t_gate"]
            /\ UNCHANGED <<wake, read_tlr, access_token, response, outcome>>
    /\ UNCHANGED <<now, horizon, threads, clientVars, op, callLog, tokenReply, sent, pureVars>>

T_Gate(t) == Gate(t, "t_gate", "t_sleep", "t_send")

T_Wake(t) == Wake(t, "t_sleep", "t_send")

\* line 102, the request
T_Send(t) == Send(t, "t_send", "POST", "t_wait")

\* line 102, the response
T_Recv(t) ==
    \E r \in TokenResponses :
        /\ Recv(t, "t_wait", "t_stamp", r)
        /\ tokenReply' = [tokenReply EXCEPT ![t] = r.status]

\* line 102, an exception
T_Fail(t) == Fail(t, "t_wait", "POST")

\* line 103
T_Stamp(t) == Stamp(t, "t_stamp", "t_handle")

\* lines 104-122
T_Handle(t) ==
    /\ pc[t] = "t_handle"
    /\ LET r == response[t] IN
       IF RaisesHTTPError(r.status)
       THEN /\ RaiseHTTPError(t, r.status, "POST")
            /\ UNCHANGED <<token, token_expiration>>
       ELSE IF StoresToken(r.status)
       THEN IF "expires_in" \notin DOMAIN r.body
            THEN \* line 117: timedelta(seconds=None) raises TypeError, nothing is stored
                 /\ Raise(t, "TypeError", "POST")
                 /\ UNCHANGED <<token, token_expiration>>
            ELSE /\ token_expiration' = NewExpiration(now, r.body.expires_in)
                 /\ token' = Get(r.body, "access_token")
                 /\ ReturnToken(t, Get(r.body, "access_token"))
       ELSE /\ ReturnToken(t, None)
            /\ UNCHANGED <<token, token_expiration>>
    /\ UNCHANGED <<now, horizon, threads, time_of_last_request, op, callLog, tokenReply,
                   sent, pureVars>>

----------------------------------------------------------------------------
(* _base_request *)

\* lines 166-190: what a status-200 body, given as the sequence of its
\* top-level keys, is turned into: without 'result' None is returned; with it,
\* 'result' is popped and list(json.keys())[0] names the data, which is an
\* IndexError when no key is left
Normalize(keys) ==
    IF \E i \in 1..Len(keys) : keys[i] = "result"
    THEN LET rest == SelectSeq(keys, LAMBDA k : k # "result") IN
         IF rest = <<>>
         THEN [kind |-> "IndexError", val |-> "GET"]
         ELSE [kind |-> "table", val |-> rest[1]]
    ELSE [kind |-> "returned", val |-> None]

\* fetch_data() -> _base_request(), whose first statement (line 135) calls _request_token()
CallFetch(t) == Begin(t, "fetch")

B_Gate(t) == Gate(t, "b_gate", "b_sleep", "b_send")

B_Wake(t) == Wake(t, "b_sleep", "b_send")

\* line 150, the request
B_Send(t) == Send(t, "b_send", "GET", "b_wait")

\* line 150, the response
B_Recv(t) ==
    \E r \in DataResponses :
        /\ Recv(t, "b_wait", "b_stamp", r)
        /\ UNCHANGED tokenReply

\* line 150, an exception
B_Fail(t) == Fail(t, "b_wait", "GET")

\* line 152
B_Stamp(t) == Stamp(t, "b_stamp", "b_handle")

\* lines 153-193
B_Handle(t) ==
    /\ pc[t] = "b_handle"
    /\ LET r == response[t] IN
       IF RaisesHTTPError(r.status)
       THEN RaiseHTTPError(t, r.status, "GET")
       ELSE IF r.status = 200
       THEN Leave(t, Normalize(r.body))
       ELSE Leave(t, [kind |-> "returned", val |-> None])
    /\ UNCHANGED <<now, horizon, threads, clientVars, op, callLog, tokenReply, sent, pureVars>>

----------------------------------------------------------------------------
(* fetch_data and _fetch_with_optional_params *)

\* A date is <<year, month, day>>; an argument left out (None) is <<>>.
NoDate == <<>>

Dates == { <<2023, 1, 5>>, <<2023, 12, 31>>, <<2024, 2, 29>>, <<1999, 10, 9>> }

\* keyword arguments of an endpoint method, each a value or None
Kwargs == [ {"biddingZone", "type"} -> {None, "NORD"} ]

Digits == <<"0", "1", "2", "3", "4", "5", "6", "7", "8", "9">>

Digit(n) == Digits[n + 1]

\* %d and %m: two digits, zero-padded
TwoDigits(n) == <<Digit(n \div 10), Digit(n % 10)>>

\* %Y: the year, four digits for every year a pd.Timestamp can hold
FourDigits(n) == TwoDigits(n \div 100) \o TwoDigits(n % 100)

\* strftime('%m/%d/%Y'): the month first
StrfDate_MonthFirst(ts) ==
    TwoDigits(ts[2]) \o <<"/">> \o TwoDigits(ts[3]) \o <<"/">> \o FourDigits(ts[1])

\* lines 229-230: strftime('%d/%m/%Y'), the string as its characters
StrfDate(ts) == TwoDigits(ts[3]) \o <<"/">> \o TwoDigits(ts[2]) \o <<"/">> \o FourDigits(ts[1])

\* dict.update(other)
Update(d, other) ==
    [k \in DOMAIN d \cup DOMAIN other |-> IF k \in DOMAIN other THEN other[k] ELSE d[k]]

\* lines 226-233: the query parameters of fetch_data
FetchData(start, end, extra_params) ==
    LET dates == IF start # NoDate /\ end # NoDate
                 THEN [k \in {"dateFrom", "dateTo"} |->
                          IF k = "dateFrom" THEN StrfDate(start) ELSE StrfDate(end)]
                 ELSE <<>>
    IN IF DOMAIN extra_params # {} THEN Update(dates, extra_params) ELSE dates

\* lines 196-203: the keyword arguments that are not None travel as extra_params
FetchWithOptionalParams(start, end, kwargs) ==
    LET extra == [k \in {x \in DOMAIN kwargs : kwargs[x] # None} |-> kwargs[k]] IN
    IF start = NoDate /\ end = NoDate
    THEN FetchData(NoDate, NoDate, extra)
    ELSE FetchData(start, end, extra)

\* an endpoint method is called with `request`: the parameters its GET will carry
EndpointCall ==
    /\ request # <<>>
    /\ data = <<>>
    /\ data' = <<FetchWithOptionalParams(request.start, request.end, request.kwargs)>>
    /\ UNCHANGED <<now, horizon, threads, clientVars, threadVars, request, dt, adjusted>>

----------------------------------------------------------------------------
(* _adjust_tz *)

\* A naive timestamp is [cal, day, hour, minute]: `cal` names the calendar
\* date of day 1 (an ordinary winter day, the day Europe/Rome's clocks go
\* forward, the day they go back), day 0 and day 2 are the days around it.
CalendarDays == {"2023-01-15", "2023-03-26", "2023-10-29"}

Naive == [cal : CalendarDays, day : {1}, hour : 0..23, minute : 0..59]

MinuteOfWindow(ts) == ts.day * 1440 + ts.hour * 60 + ts.minute

\* dt - datetime.timedelta(minutes=n)
SubMinutes(ts, n) ==
    LET m == MinuteOfWindow(ts) - n IN
    [cal |-> ts.cal, day |-> m \div 1440, hour |-> (m % 1440) \div 60, minute |-> m % 60]

\* Europe/Rome on the three dates: at 02:00 of 2023-03-26 the clocks go to
\* 03:00, at 03:00 of 2023-10-29 they go back to 02:00
NonExistent(ts) == ts.cal = "2023-03-26" /\ ts.day = 1 /\ ts.hour = 2

Ambiguous(ts) == ts.cal = "2023-10-29" /\ ts.day = 1 /\ ts.hour = 2

SummerTime(ts) ==
    \/ ts.cal = "2023-03-26" /\ (ts.day = 2 \/ (ts.day = 1 /\ ts.hour >= 3))
    \/ ts.cal = "2023-10-29" /\ (ts.day = 0 \/ (ts.day = 1 /\ ts.hour < 2))

\* pandas' Timestamp.tz_localize("Europe/Rome", ambiguous=flag): the wall
\* clock is kept and an offset from UTC (in minutes) attached; a wall-clock
\* time that the zone skips raises, one that occurs twice is summer time
\* when the flag is True
TzLocalize(ts, ambiguous) ==
    IF NonExistent(ts)
    THEN [error |-> "NonExistentTimeError"]
    ELSE [wall |-> ts,
          utcoffset |-> IF (IF Ambiguous(ts) THEN ambiguous ELSE SummerTime(ts))
                        THEN 120 ELSE 60]

\* a shift back to the quarter hour just before
QuarterShift_Floor(delta) == delta

\* line 327: the minutes taken off a timestamp that is `delta` past a quarter
QuarterShift(delta) == delta + 15 * (4 - delta)

\* lines 322-327
AdjustTz(ts) ==
    LET delta == ts.minute % 15 IN
    IF delta = 0
    THEN TzLocalize(ts, TRUE)
    ELSE TzLocalize(SubMinutes(ts, QuarterShift(delta)), FALSE)

\* line 175: _adjust_tz is applied to a value of the Date column
AdjustCall ==
    /\ dt # <<>>
    /\ adjusted = <<>>
    /\ adjusted' = <<AdjustTz(dt)>>
    /\ UNCHANGED <<now, horizon, threads, clientVars, threadVars, request, data, dt>>

----------------------------------------------------------------------------
(* The clock *)

\* Time passes while a thread is between two calls, asleep in the gate or
\* waiting for a server; running the statements in between takes none.  A
\* sleep ends on time and a request is answered (or fails) within MaxLatency.
Tick ==
    /\ now < horizon
    /\ \E t \in threads : pc[t] \in {"idle", "t_sleep", "b_sleep", "t_wait", "b_wait"}
    /\ \A t \in threads :
        /\ pc[t] \in {"t_sleep", "b_sleep"} => now < wake[t]
        /\ pc[t] \in {"t_wait", "b_wait"} => now - sent[t] < MaxLatency
    /\ now' = now + 1
    /\ UNCHANGED <<horizon, threads, clientVars, threadVars, pureVars>>

----------------------------------------------------------------------------
(* One client, used by one thread or by two *)

PureIdle ==
    /\ request = <<>>
    /\ data = <<>>
    /\ dt = <<>>
    /\ adjusted = <<>>

Init ==
    /\ now = 0
    /\ horizon = MaxTime
    /\ threads = {1}
    /\ ClientInit
    /\ ThreadInit
    /\ PureIdle

\* The client as one thread leaves it a second after a token request that
\* was answered at once with `tok`, valid for 8 s: T_Handle has stored the
\* token and NewExpiration(now, 80), T_Stamp the time, and 10 ticks went by.
ClientWarm(tok) ==
    /\ token = tok
    /\ token_expiration = now + 80 - INITIAL_LAG
    /\ time_of_last_request = now - INITIAL_LAG

\* Two threads start on a client that is as constructed, or warm
InitConc ==
    /\ now = 0
    /\ horizon = MaxTimeConc
    /\ threads = Threads
    /\ ClientInit \/ ClientWarm("tokA")
    /\ ThreadInit
    /\ PureIdle

Next ==
    \/ Tick
    \/ \E t \in threads : CallRequestToken(t)
    \/ \E t \in threads : CallFetch(t)
    \/ \E t \in threads : T_Check(t)
    \/ \E t \in threads : T_Gate(t)
    \/ \E t \in threads : T_Wake(t)
    \/ \E t \in threads : T_Send(t)
    \/ \E t \in threads : T_Recv(t)
    \/ \E t \in threads : T_Fail(t)
    \/ \E t \in threads : T_Stamp(t)
    \/ \E t \in threads : T_Handle(t)
    \/ \E t \in threads : B_Gate(t)
    \/ \E t \in threads : B_Wake(t)
    \/ \E t \in threads : B_Send(t)
    \/ \E t \in threads : B_Recv(t)
    \/ \E t \in threads : B_Fail(t)
    \/ \E t \in threads : B_Stamp(t)
    \/ \E t \in threads : B_Handle(t)

Spec == Init /\ [][Next]_vars

SpecConc == InitConc /\ [][Next]_vars

----------------------------------------------------------------------------
(* The pure functions, on every input of a bounded set *)

NoClient ==
    /\ now = 0
    /\ horizon = 0
    /\ threads = {}
    /\ ClientInit
    /\ ThreadInit

InitParams ==
    /\ NoClient
    /\ request \in [start : Dates \cup {NoDate}, end : Dates \cup {NoDate}, kwargs : Kwargs]
    /\ data = <<>>
    /\ dt = <<>>
    /\ adjusted = <<>>

NextParams == EndpointCall

SpecParams == InitParams /\ [][NextParams]_vars

InitTz ==
    /\ NoClient
    /\ request = <<>>
    /\ data = <<>>
    /\ dt \in Naive
    /\ adjusted = <<>>

NextTz == AdjustCall

SpecTz == InitTz /\ [][NextTz]_vars

----------------------------------------------------------------------------
(* Properties *)

SendPcs == {"t_send", "b_send"}

WaitPcs == {"t_wait", "b_wait"}

\* thread t puts an HTTP call on the wire in this step
Dispatches(t) == pc[t] \in SendPcs /\ pc'[t] \in WaitPcs

\* thread t leaves line 82 in this step
DecidesOnCache(t) == pc[t] = "t_check" /\ pc'[t] # "t_check"

\* what _request_token handed back to thread t in this step is v
HandsBack(t, v) ==
    IF op[t] = "token"
    THEN pc'[t] = "idle" /\ outcome'[t] = [kind |-> "token", val |-> v]
    ELSE pc'[t] = "b_gate" /\ access_token'[t] = v

\* C1: a _request_token call that finds a cached token whose expiration minus
\* 5 s is later than now dispatches nothing, hands back exactly the cached
\* token and leaves the token, its expiration and the time of the last
\* request as they were, whatever calls came before.
C1_CachedTokenReused ==
    [][\A t \in threads :
          (DecidesOnCache(t) /\ token # None /\ token_expiration - TOKEN_MARGIN > now)
          => /\ HandsBack(t, token)
             /\ callLog'[t] = callLog[t]
             /\ sent' = sent
             /\ token' = token
             /\ token_expiration' = token_expiration
             /\ time_of_last_request' = time_of_last_request]_vars

\* C1: a direct _request_token call, made after earlier requests, came back
\* with the cached token and without any HTTP call.
C1_Witness ==
    /\ op[1] = "token" /\ pc[1] = "idle"
    /\ callLog[1] = <<>>
    /\ token # None
    /\ outcome[1] = [kind |-> "token", val |-> token]
    /\ sent[1] # NoTime

\* C2: a _request_token call that finds the token missing or within 5 s of
\* its expiration goes on to the token POST; when it handles a status-200
\* response (carrying access_token and expires_in) it has made exactly one
\* POST, stores the returned access_token, sets the expiration to
\* now + expires_in and hands that token back.
C2_TokenRenewed ==
    [][\A t \in threads :
          /\ (DecidesOnCache(t) /\ (token = None \/ token_expiration - TOKEN_MARGIN <= now))
             => (pc'[t] = "t_gate" /\ callLog'[t] = <<>>)
          /\ (pc[t] = "t_handle" /\ pc'[t] # "t_handle" /\ response[t].status = 200
                /\ "expires_in" \in DOMAIN response[t].body)
             => /\ callLog[t] = <<"POST">>
                /\ callLog'[t] = <<"POST">>
                /\ token' = response[t].body.access_token
                /\ token_expiration' = now + response[t].body.expires_in
                /\ HandsBack(t, response[t].body.access_token)]_vars

\* C2: a token that had been valid has expired and a call replaced it by one POST.
C2_Witness ==
    /\ op[1] = "token" /\ pc[1] = "idle"
    /\ callLog[1] = <<"POST">>
    /\ outcome[1] = [kind |-> "token", val |-> token]
    /\ token # None
    /\ token_expiration = now + 80
    /\ now > 80 - TOKEN_MARGIN

\* C3: used by one thread, the client dispatches any two consecutive HTTP
\* calls at least 1.1 s apart, also after a call that failed.
C3_SpacedDispatches ==
    [][\A t \in threads :
          (Dispatches(t) /\ sent[t] # NoTime) => now - sent[t] >= RATE_LIMIT]_vars

\* C4: a fetch whose token POST was answered with a status that is not 200
\* and raises nothing dispatches no data GET and returns no table.
C4_AuthFailureIsFatal ==
    \A t \in threads :
        (op[t] = "fetch" /\ tokenReply[t] # 0 /\ tokenReply[t] # 200
            /\ ~RaisesHTTPError(tokenReply[t]))
        => (callLog[t] = <<"POST">> /\ outcome[t].kind # "table")

\* C5: a status-200 data response whose body has no key besides `result`
\* (with or without `result` itself) makes the fetch return None, never raise.
C5_EmptyResultIsNoError ==
    [][\A t \in threads :
          (pc[t] = "b_handle" /\ pc'[t] # "b_handle" /\ response[t].status = 200
              /\ \A i \in 1..Len(response[t].body) : response[t].body[i] = "result")
          => outcome'[t] = [kind |-> "returned", val |-> None]]_vars

\* the number a sequence of digit characters spells
RECURSIVE NumberOf(_)
NumberOf(chars) ==
    IF chars = <<>> THEN 0
    ELSE 10 * NumberOf(SubSeq(chars, 1, Len(chars) - 1))
         + (CHOOSE n \in 0..9 : Digits[n + 1] = chars[Len(chars)])

\* str is the date ts written DD/MM/YYYY
IsDDMMYYYY(str, ts) ==
    /\ Len(str) = 10
    /\ str[3] = "/" /\ str[6] = "/"
    /\ NumberOf(SubSeq(str, 1, 2)) = ts[3]
    /\ NumberOf(SubSeq(str, 4, 5)) = ts[2]
    /\ NumberOf(SubSeq(str, 7, 10)) = ts[1]

HasDates(params) == "dateFrom" \in DOMAIN params \/ "dateTo" \in DOMAIN params

\* C6, as claimed: dateFrom and dateTo are left out exactly when start and end
\* are both absent; in every other case both are sent.
C6_DatesOmittedIffBothAbsent ==
    data # <<>> =>
        (~HasDates(data[1]) <=> (request.start = NoDate /\ request.end = NoDate))

\* C6, amended: dateFrom and dateTo are sent exactly when start and end are
\* both given, each written DD/MM/YYYY; when one or both are absent neither
\* key is sent.
C6_DatesSentIffBothGiven ==
    data # <<>> =>
        IF request.start # NoDate /\ request.end # NoDate
        THEN /\ {"dateFrom", "dateTo"} \subseteq DOMAIN data[1]
             /\ IsDDMMYYYY(data[1]["dateFrom"], request.start)
             /\ IsDDMMYYYY(data[1]["dateTo"], request.end)
        ELSE ~HasDates(data[1])

\* C6: only `start` was given and the call's parameters carry no date.
C6_Witness ==
    /\ request # <<>> /\ data # <<>>
    /\ request.start = <<2023, 1, 5>> /\ request.end = NoDate
    /\ ~HasDates(data[1])

\* C7: one call dispatches at most one token POST and then at most one data
\* GET; once a call has raised an HTTPError it is over, and the call that
\* failed was the last one it dispatched.
C7_NoRetry ==
    \A t \in threads :
        /\ callLog[t] \in {<<>>, <<"POST">>, <<"GET">>, <<"POST", "GET">>}
        /\ op[t] = "token" => callLog[t] \in {<<>>, <<"POST">>}
        /\ outcome[t].kind = "HTTPError"
           => /\ pc[t] = "idle"
              /\ callLog[t] # <<>>
              /\ callLog[t][Len(callLog[t])] = outcome[t].val

\* C7: a fetch whose token POST was answered 503 is over after that one call.
C7_Witness ==
    /\ op[1] = "fetch" /\ pc[1] = "idle"
    /\ outcome[1] = [kind |-> "HTTPError", val |-> "POST", code |-> 503]
    /\ callLog[1] = <<"POST">>

\* C8: the wall clock of what _adjust_tz returns is on the quarter-hour grid:
\* the timestamp itself when its minute is a multiple of 15, and otherwise the
\* timestamp less delta + 15*(4 - delta) minutes, delta = minute mod 15.
C8_QuarterGrid ==
    (adjusted # <<>> /\ "wall" \in DOMAIN adjusted[1]) =>
        LET w == adjusted[1].wall
            delta == dt.minute % 15
        IN /\ w.minute \in {0, 15, 30, 45}
           /\ delta = 0 => w = dt
           /\ delta # 0 =>
                MinuteOfWindow(w) = MinuteOfWindow(dt) - (delta + 15 * (4 - delta))

\* C8: 10:07 has become 10:45.
C8_Witness ==
    /\ dt = [cal |-> "2023-01-15", day |-> 1, hour |-> 10, minute |-> 7]
    /\ adjusted = <<[wall |-> [cal |-> "2023-01-15", day |-> 1, hour |-> 10, minute |-> 45],
                     utcoffset |-> 60]>>

\* C9: with two threads on one client the gate spaces a call only from the
\* time of the last request that the calling thread itself read: two calls in
\* flight less than 1.1 s apart were both sent by threads whose gates had not
\* seen the other's call.
C9_GateSpacesOnlyFromOwnRead ==
    \A t \in threads :
        pc[t] \in WaitPcs =>
            /\ sent[t] >= read_tlr[t] + RATE_LIMIT
            /\ \A u \in threads \ {t} :
                  (pc[u] \in WaitPcs /\ sent[t] - sent[u] < RATE_LIMIT /\ sent[u] <= sent[t])
                  => read_tlr[t] < sent[u]

\* C9: both threads found no token, read the same time of the last request,
\* and each has its own token POST in flight, the two less than 1.1 s apart.
C9_Witness ==
    /\ pc[1] = "t_wait" /\ pc[2] = "t_wait"
    /\ token = None
    /\ read_tlr[1] = read_tlr[2]
    /\ callLog[1] = <<"POST">> /\ callLog[2] = <<"POST">>
    /\ sent[1] - sent[2] < RATE_LIMIT /\ sent[2] - sent[1] < RATE_LIMIT

\* C10: the cached token and its expiration change only in the step that
\* handles a status-200 token response; a failed token request and every
\* data GET, whatever its status, leave them as they were.
C10_TokenCacheFrame ==
    [][(token' # token \/ token_expiration' # token_expiration)
          => \E t \in threads :
                /\ pc[t] = "t_handle" /\ pc'[t] # "t_handle"
                /\ response[t].status = 200]_vars

\* C10: a fetch sent the cached token, the data endpoint rejected it with 401,
\* and the token is still cached and still valid for the next fetch.
C10_Witness ==
    /\ op[1] = "fetch" /\ pc[1] = "idle"
    /\ callLog[1] = <<"GET">>
    /\ outcome[1] = [kind |-> "HTTPError", val |-> "GET", code |-> 401]
    /\ token # None /\ token_expiration - TOKEN_MARGIN > now

====
